---- MODULE Spec2Model ----
(***************************************************************************)
(* The Recorder of vant-recorder (src/src/index.ts): its running flag, its *)
(* current conditions task settings, the timer it arms with setTimeout,    *)
(* and the activations of the async method updateCurrentConditions.        *)
(*                                                                         *)
(* Numbers.  Instants and durations are milliseconds.  A task interval is  *)
(* a JavaScript number of seconds; it is held in thousandths, so that the  *)
(* interval 1 of the source is 1000 here and 1.5 would be 1500.             *)
(* An optional value (a field that may be undefined, an absent property)   *)
(* is a sequence: << >> for undefined, <<v>> for the value v.              *)
(*                                                                         *)
(* Objects.  Armed timers and activations have no names: each is a record  *)
(* in a bag.  The field realtimeRecorderTimeout of the recorder is the     *)
(* flag held of the timer it refers to; a handle that is undefined, or     *)
(* whose timer has fired or was cleared, is no flag at all, since          *)
(* clearTimeout does nothing with any of them.                             *)
(***************************************************************************)
EXTENDS Integers, Sequences, FiniteSets, Bags, TLC

VARIABLES
    running,                              \* Recorder.running
    currentConditionsTaskSettings,        \* the reference held by the recorder
    defaultCurrentConditionsTaskSettings, \* the module-level default object
    timers,                               \* the timers armed in the event loop (a bag)
    cycles,                               \* activations of updateCurrentConditions (a bag)
    deliveries,                           \* POST requests without a response yet
    now,                                  \* the clock
    defaultRecorderSettings,              \* the module-level default object of create()
    recorderSettings,                     \* Recorder.settings: the reference held by the recorders
    connecting,                           \* create() calls awaiting createDeviceInterface
    main                                  \* the start script: its position, its recorder, the exit

\* the variables of the recorder's schedule
recorderVars == <<running, currentConditionsTaskSettings, defaultCurrentConditionsTaskSettings,
                  timers, cycles, deliveries, now>>

\* the variables of create()
createVars == <<defaultRecorderSettings, recorderSettings, connecting>>

vars == <<recorderVars, createVars, main>>

----------------------------------------------------------------------------
(* Bounds of the model *)

\* the clock stops here
MaxTime == 2000
\* activations and armed timers that may exist side by side
MaxChains == 2
\* failed device reads within one cycle
MaxFails == 2
\* POST requests in flight
MaxInflight == 1
\* create() calls awaiting the device at the same time
MaxConnecting == 1

\* the readings around a time zone transition: milliseconds on either side
DelayWindow == 2000

----------------------------------------------------------------------------
(* Values *)

Undefined == << >>

Some(v) == <<v>>

\* the only object a recorder's currentConditionsTaskSettings ever refers to:
\* lodash merge returns its first argument
DefaultsRef == Some("defaultCurrentConditionsTaskSettings")

MsPerSecond == 1000

\* sleep(1000)
BackoffMs == 1000

\* the number n of the source, in thousandths
Num(n) == n * MsPerSecond

\* defaultCurrentConditionsTaskSettings as the module is loaded
InitialDefaults == [interval |-> Num(1)]

\* the clock advances by one of these
ClockSteps == {500}

\* the arguments of configureCurrentConditionsTask that are tried
TaskSettingsInputs ==
    {[disable |-> TRUE, interval |-> Undefined]} \cup
    {[disable |-> FALSE, interval |-> i] : i \in {Undefined, Some(Num(0)), Some(Num(1)), Some(Num(2))}}

----------------------------------------------------------------------------
(* The state as one value, so that the methods are functions on it *)

Cur == [running |-> running,
        currentConditionsTaskSettings |-> currentConditionsTaskSettings,
        defaultCurrentConditionsTaskSettings |-> defaultCurrentConditionsTaskSettings,
        timers |-> timers,
        cycles |-> cycles,
        deliveries |-> deliveries,
        now |-> now]

BecomesRecorder(s) ==
    /\ running' = s.running
    /\ currentConditionsTaskSettings' = s.currentConditionsTaskSettings
    /\ defaultCurrentConditionsTaskSettings' = s.defaultCurrentConditionsTaskSettings
    /\ timers' = s.timers
    /\ cycles' = s.cycles
    /\ deliveries' = s.deliveries
    /\ now' = s.now

Becomes(s) ==
    /\ BecomesRecorder(s)
    /\ UNCHANGED <<createVars, main>>

\* what create() reads and writes, as one value
CurModule == [defaultRecorderSettings |-> defaultRecorderSettings,
              recorderSettings |-> recorderSettings,
              connecting |-> connecting]

BecomesModule(m) ==
    /\ defaultRecorderSettings' = m.defaultRecorderSettings
    /\ recorderSettings' = m.recorderSettings
    /\ connecting' = m.connecting

One(x) == SetToBag({x})

\* this.currentConditionsTaskSettings?.interval
currentConditionsInterval(s) ==
    IF s.currentConditionsTaskSettings = Undefined
    THEN Undefined
    ELSE Some(s.defaultCurrentConditionsTaskSettings.interval)

----------------------------------------------------------------------------
(* Date arithmetic of the re-arm *)

\* ToIntegerOrInfinity of a number in thousandths: truncation towards zero
TruncToInteger(x) == IF x >= 0 THEN x \div MsPerSecond ELSE -((-x) \div MsPerSecond)

HourMs == 3600000

MinuteMs == 60000

\* the time zone of the host, as offsets of local time from UTC: one hour east
\* of UTC, with daylight saving time from SpringForward to FallBack. The epoch
\* of the model lies in standard time, a day before the first transition.
StandardOffset == HourMs

DaylightOffset == 2 * HourMs

SpringForward == 25 * HourMs

FallBack == 49 * HourMs

\* the offset in force at the instant t
LocalTZA(t) == IF SpringForward <= t /\ t < FallBack THEN DaylightOffset ELSE StandardOffset

\* LocalTime(t) of ECMAScript: the local time of an instant
LocalTime(t) == t + LocalTZA(t)

\* the instants whose local time is tl
PossibleInstants(tl) == {u \in {tl - StandardOffset, tl - DaylightOffset} : LocalTime(u) = tl}

\* UTC(t) of ECMAScript: a local time that occurs twice is the earlier instant,
\* a local time that is skipped is read with the offset before the transition
UTC(tl) ==
    IF PossibleInstants(tl) = {}
    THEN tl - StandardOffset
    ELSE CHOOSE u \in PossibleInstants(tl) : \A v \in PossibleInstants(tl) : u <= v

\* Date.prototype.getSeconds
getSeconds(t) == (LocalTime(t) \div MsPerSecond) % 60

\* Date.prototype.setSeconds(sec): the seconds field of the local time, put back as an instant
setSeconds(t, sec) ==
    LET tl == LocalTime(t)
    IN UTC(tl - (tl % MinuteMs) + sec * MsPerSecond + (tl % MsPerSecond))

\* Date.prototype.setMilliseconds(0)
setMilliseconds(t) ==
    LET tl == LocalTime(t)
    IN UTC(tl - (tl % MsPerSecond))

\* new Date(t); setSeconds(getSeconds() + interval); setMilliseconds(0)
newRecordTime(t, interval) ==
    setMilliseconds(setSeconds(t, TruncToInteger(Num(getSeconds(t)) + interval)))

\* newRecordTime.getTime() - record.time.getTime(); NaN when the interval is undefined
timeoutTime(t, optInterval) ==
    IF optInterval = Undefined THEN Undefined ELSE Some(newRecordTime(t, optInterval[1]) - t)

\* setTimeout: a delay that is NaN or below 1 is a delay of 1
TimerAfter(optDelay) ==
    IF optDelay = Undefined THEN 1 ELSE IF optDelay[1] >= 1 THEN optDelay[1] ELSE 1

\* setTimeout(callback, delay) at the instant at: the Timeout object
setTimeout(at, optDelay) == [due |-> at + TimerAfter(optDelay), held |-> TRUE]

----------------------------------------------------------------------------
(* The methods of Recorder *)

\* the activation of updateCurrentConditions that has just requested its first
\* reading; at is the instant of the call the activation awaits
NewCycle(at) == [pc |-> "reading", fails |-> 0, reads |-> 1, sleeps |-> 0, at |-> at]

\* updateCurrentConditions up to its first await: the device read is requested
updateCurrentConditions(s) == [s EXCEPT !.cycles = @ (+) One(NewCycle(s.now))]

\* start() without its test of the running flag
start_NoGuard(s) ==
    LET r == [s EXCEPT !.running = TRUE]
    IN IF s.currentConditionsTaskSettings # Undefined
       THEN updateCurrentConditions(r)
       ELSE r

\* a start() that begins a cycle whether or not a task is configured
start_AlwaysSamples(s) ==
    IF s.running
    THEN s
    ELSE updateCurrentConditions([s EXCEPT !.running = TRUE])

start(s) ==
    IF s.running
    THEN s
    ELSE LET r == [s EXCEPT !.running = TRUE]
         IN IF s.currentConditionsTaskSettings # Undefined
            THEN updateCurrentConditions(r)
            ELSE r

\* the timers the recorder's handle does not refer to
NotHeld(ts) == {t \in BagToSet(ts) : ~t.held}

\* clearTimeout(this.realtimeRecorderTimeout)
clearTimeout(ts) == [t \in NotHeld(ts) |-> ts[t]]

stop(s) ==
    IF s.running
    THEN [s EXCEPT !.timers = clearTimeout(@), !.running = FALSE]
    ELSE s

restart(s) == start(stop(s))

\* !interval || interval < 1
IntervalRejected(interval) == interval = 0 \/ interval < Num(1)

\* lodash merge(defaultCurrentConditionsTaskSettings, settings): the default
\* object itself, with the properties present in settings written into it
merge(defaults, settings) ==
    IF settings.interval = Undefined
    THEN defaults
    ELSE [defaults EXCEPT !.interval = settings.interval[1]]

\* a configureCurrentConditionsTask that begins sampling as soon as a task is stored
configureCurrentConditionsTask_Samples(s, settings) ==
    IF settings.disable
    THEN [s EXCEPT !.currentConditionsTaskSettings = Undefined]
    ELSE LET merged == merge(s.defaultCurrentConditionsTaskSettings, settings)
         IN updateCurrentConditions(
                [s EXCEPT !.defaultCurrentConditionsTaskSettings = merged,
                          !.currentConditionsTaskSettings = DefaultsRef])

configureCurrentConditionsTask(s, settings) ==
    IF settings.disable
    THEN [s EXCEPT !.currentConditionsTaskSettings = Undefined]
    ELSE LET merged == merge(s.defaultCurrentConditionsTaskSettings, settings)
         IN [s EXCEPT !.defaultCurrentConditionsTaskSettings = merged,
                      !.currentConditionsTaskSettings = DefaultsRef]

\* whether the call throws InvalidRecorderConfigurationError (after the assignment)
configureThrows(s, settings) ==
    /\ ~settings.disable
    /\ IntervalRejected(merge(s.defaultCurrentConditionsTaskSettings, settings).interval)

----------------------------------------------------------------------------
(* Strings of the environment: validator and parseInt *)

Digits == "0123456789"

Char(str, i) == SubSeq(str, i, i)

IsDigit(ch) == \E n \in 1..Len(Digits) : Char(Digits, n) = ch

DigitValue(ch) == (CHOOSE n \in 1..Len(Digits) : Char(Digits, n) = ch) - 1

IsSign(ch) == ch = "+" \/ ch = "-"

\* String(n) of a non-negative integer
RECURSIVE toString(_)
toString(n) ==
    IF n < Len(Digits)
    THEN Char(Digits, n + 1)
    ELSE toString(n \div Len(Digits)) \o Char(Digits, (n % Len(Digits)) + 1)

\* the value of the digits str[i..j], read from the left
RECURSIVE DigitsValue(_, _, _)
DigitsValue(str, i, j) ==
    IF j < i THEN 0
    ELSE DigitsValue(str, i, j - 1) * Len(Digits) + DigitValue(Char(str, j))

\* the end of the longest run of digits of str that begins at i (i - 1 when there is none)
RECURSIVE DigitsEnd(_, _)
DigitsEnd(str, i) ==
    IF i <= Len(str) /\ IsDigit(Char(str, i)) THEN DigitsEnd(str, i + 1) ELSE i - 1

\* parseInt(str): an optional sign and the digits that follow it, whatever
\* comes after them; NaN (Undefined) when there is no digit
parseInt(str) ==
    LET from == IF Len(str) > 0 /\ IsSign(Char(str, 1)) THEN 2 ELSE 1
        to == DigitsEnd(str, from)
        magnitude == DigitsValue(str, from, to)
    IN IF to < from THEN Undefined
       ELSE Some(IF Char(str, 1) = "-" THEN 0 - magnitude ELSE magnitude)

\* validator.isInt(str, {min}): /^[-+]?[0-9]+$/ and str >= min
isInt(str, min) ==
    LET from == IF Len(str) > 0 /\ IsSign(Char(str, 1)) THEN 2 ELSE 1
    IN /\ from <= Len(str)
       /\ DigitsEnd(str, from) = Len(str)
       /\ parseInt(str)[1] >= min

\* validator.isIn(str, values): str is the string of one of the values
isIn(str, values) == str \in values

\* validator.isBoolean(str)
isBoolean(str) == str \in {"true", "false", "1", "0"}

Protocols == {"http://", "https://", "ftp://"}

\* validator.isURL(str, {require_tld: false}), as far as the strings tried
\* here go: an optional protocol, then a host, and no blank anywhere
isURL(str) ==
    LET rest == IF \E p \in Protocols : Len(str) >= Len(p) /\ SubSeq(str, 1, Len(p)) = p
                THEN LET p == CHOOSE q \in Protocols : Len(str) >= Len(q) /\ SubSeq(str, 1, Len(q)) = q
                     IN SubSeq(str, Len(p) + 1, Len(str))
                ELSE str
    IN /\ Len(rest) > 0
       /\ \A i \in 1..Len(str) : Char(str, i) # " "
       /\ Char(rest, 1) \notin {"/", ":", "."}

----------------------------------------------------------------------------
(* The recorder settings: Recorder.create *)

\* the legal values of vant-environment
BaudRates == {1200, 2400, 4800, 9600, 14400, 19200}
AdvancedModels == {"Pro2", "Vue"}
RainCollectorSizes == {"0.01in", "0.2mm", "0.1mm"}
LogLevels == {"debug", "info", "warn", "error"}
RainUnits == {"in", "mm"}
TemperatureUnits == {"°C", "°F"}
PressureUnits == {"hPa", "inHg", "mmHg", "mb"}
SolarRadiationUnits == {"W/m²"}
WindUnits == {"km/h", "mph", "ft/s", "knots", "Bft", "m/s"}

\* defaultRecorderSettings as the module is loaded; logOptions and units are
\* written flat
InitialRecorderDefaults ==
    [api |-> "", key |-> "", path |-> "", model |-> "Pro2", baudRate |-> 19200,
     preferEnvironmentVariables |-> FALSE,
     logLevel |-> "info", consoleLog |-> TRUE, fileLog |-> TRUE, logErrorInformation |-> TRUE,
     rain |-> "in", temperature |-> "°F", pressure |-> "inHg",
     solarRadiation |-> "W/m²", wind |-> "mph"]

\* the only object a recorder's settings ever refer to
RecorderDefaultsRef == Some("defaultRecorderSettings")

\* lodash merge(dest, src): dest itself, with the properties of src written into it
mergeRecorderSettings(dest, src) ==
    [f \in DOMAIN dest \cup DOMAIN src |-> IF f \in DOMAIN src THEN src[f] ELSE dest[f]]

\* the variables loadEnvironmentVariablesAndConfigureLogger reads, in its order
EnvironmentVariables ==
    <<"API", "API_KEY", "BAUD_RATE", "MODEL", "SERIAL_PATH", "LOG_LEVEL",
      "RAIN_COLLECTOR_SIZE", "CONSOLE_LOG", "FILE_LOG", "LOG_ERROR_INFORMATION",
      "RAIN_UNIT", "TEMPERATURE_UNIT", "PRESSURE_UNIT", "SOLAR_RADIATION_UNIT", "WIND_UNIT">>

\* the property each variable is assigned to
FieldOf(v) ==
    CASE v = "API" -> "api"
      [] v = "API_KEY" -> "key"
      [] v = "BAUD_RATE" -> "baudRate"
      [] v = "MODEL" -> "model"
      [] v = "SERIAL_PATH" -> "path"
      [] v = "LOG_LEVEL" -> "logLevel"
      [] v = "RAIN_COLLECTOR_SIZE" -> "rainCollectorSize"
      [] v = "CONSOLE_LOG" -> "consoleLog"
      [] v = "FILE_LOG" -> "fileLog"
      [] v = "LOG_ERROR_INFORMATION" -> "logErrorInformation"
      [] v = "RAIN_UNIT" -> "rain"
      [] v = "TEMPERATURE_UNIT" -> "temperature"
      [] v = "PRESSURE_UNIT" -> "pressure"
      [] v = "SOLAR_RADIATION_UNIT" -> "solarRadiation"
      [] v = "WIND_UNIT" -> "wind"

\* the second operand of each variable's condition
Valid(v, str) ==
    CASE v = "API" -> isURL(str)
      [] v = "API_KEY" -> TRUE
      [] v = "BAUD_RATE" -> isIn(str, {toString(b) : b \in BaudRates})
      [] v = "MODEL" -> isIn(str, AdvancedModels)
      [] v = "SERIAL_PATH" -> TRUE
      [] v = "LOG_LEVEL" -> isIn(str, LogLevels)
      [] v = "RAIN_COLLECTOR_SIZE" -> isIn(str, RainCollectorSizes)
      [] v \in {"CONSOLE_LOG", "FILE_LOG", "LOG_ERROR_INFORMATION"} -> isBoolean(str)
      [] v = "RAIN_UNIT" -> isIn(str, RainUnits)
      [] v = "TEMPERATURE_UNIT" -> isIn(str, TemperatureUnits)
      [] v = "PRESSURE_UNIT" -> isIn(str, PressureUnits)
      [] v = "SOLAR_RADIATION_UNIT" -> isIn(str, SolarRadiationUnits)
      [] v = "WIND_UNIT" -> isIn(str, WindUnits)

\* the value each variable's branch assigns
Converted(v, str) ==
    CASE v = "BAUD_RATE" -> parseInt(str)[1]
      [] v \in {"CONSOLE_LOG", "FILE_LOG", "LOG_ERROR_INFORMATION"} -> (str = "true")
      [] OTHER -> str

\* process.env.X && ...: the variable is set, not empty, and valid
Accepted(env, v) == v \in DOMAIN env /\ env[v] # "" /\ Valid(v, env[v])

\* settings.f = value
Assign(settings, f, value) ==
    [g \in DOMAIN settings \cup {f} |-> IF g = f THEN value ELSE settings[g]]

\* an overlay that gives up at the first variable that is missing or invalid
RECURSIVE loadEnvironmentVariables_StopsAtInvalid(_, _, _)
loadEnvironmentVariables_StopsAtInvalid(settings, env, n) ==
    IF n = 0 THEN settings
    ELSE LET before == loadEnvironmentVariables_StopsAtInvalid(settings, env, n - 1)
             v == EnvironmentVariables[n]
         IN IF \A k \in 1..n : Accepted(env, EnvironmentVariables[k])
            THEN Assign(before, FieldOf(v), Converted(v, env[v]))
            ELSE before

\* the settings after the first n variables have been handled
RECURSIVE loadEnvironmentVariables(_, _, _)
loadEnvironmentVariables(settings, env, n) ==
    IF n = 0 THEN settings
    ELSE LET before == loadEnvironmentVariables(settings, env, n - 1)
             v == EnvironmentVariables[n]
         IN IF Accepted(env, v)
            THEN Assign(before, FieldOf(v), Converted(v, env[v]))
            ELSE before

\* the names pushed to invalidEnvironmentVariables, one log.warn each
invalidEnvironmentVariables(env) ==
    SelectSeq(EnvironmentVariables, LAMBDA v : ~Accepted(env, v))

\* !settings.f
Missing(settings, f) ==
    \/ f \notin DOMAIN settings
    \/ settings[f] = (IF f = "baudRate" THEN 0 ELSE "")

NoError == ""

\* the message of the InvalidRecorderConfigurationError thrown, if any
validateSettings(settings) ==
    IF Missing(settings, "path") THEN "No serial path specified!"
    ELSE IF Missing(settings, "rainCollectorSize") THEN "No rain collector size specified!"
    ELSE IF Missing(settings, "api") THEN "No api url specified!"
    ELSE IF Missing(settings, "baudRate") THEN "No baud rate specified!"
    ELSE IF Missing(settings, "model") THEN "No weather station model specified!"
    ELSE NoError

\* the settings object of create() when validateSettings is called: the
\* default object, merged and overlaid
resolve(defaults, minimumSettings, env) ==
    LET merged == mergeRecorderSettings(defaults, minimumSettings)
    IN IF merged.preferEnvironmentVariables
       THEN loadEnvironmentVariables(merged, env, Len(EnvironmentVariables))
       ELSE merged

\* a create() that opens the connection whatever validateSettings says
create_ConnectsFirst(m, minimumSettings, env) ==
    LET settings == resolve(m.defaultRecorderSettings, minimumSettings, env)
    IN [m EXCEPT !.defaultRecorderSettings = settings,
                 !.connecting = @ + 1]

\* create() up to its await: m holds the default object and the number of
\* connections being opened
create(m, minimumSettings, env) ==
    LET settings == resolve(m.defaultRecorderSettings, minimumSettings, env)
    IN IF validateSettings(settings) # NoError
       THEN [m EXCEPT !.defaultRecorderSettings = settings]
       ELSE [m EXCEPT !.defaultRecorderSettings = settings,
                      !.connecting = @ + 1]

\* create() after its await: createDeviceInterface resolves and the recorder
\* is constructed with the default object as its settings, or it rejects
connected(m, ok) ==
    IF ok
    THEN [m EXCEPT !.connecting = @ - 1,
                   !.recorderSettings = RecorderDefaultsRef]
    ELSE [m EXCEPT !.connecting = @ - 1]

\* the settings of the example in the documentation of create()
ExampleSettings ==
    [path |-> "COM5", api |-> "http://localhost:8000/api", rainCollectorSize |-> "0.2mm",
     model |-> "Pro2", key |-> "key", baudRate |-> 19200]

\* the arguments of create() that are tried: complete settings, or settings
\* that leave the rest to the environment
CreateInputs ==
    {ExampleSettings,
     [path |-> "COM7", api |-> "localhost:8000", rainCollectorSize |-> "0.1mm",
      model |-> "Vue", key |-> "", baudRate |-> 9600],
     [preferEnvironmentVariables |-> TRUE],
     [preferEnvironmentVariables |-> TRUE, rainCollectorSize |-> "0.01in", path |-> ""]}

\* the environments that are tried
Environments ==
    {[SERIAL_PATH |-> ""],
     [API |-> "https://weather.example/api", API_KEY |-> "secret", BAUD_RATE |-> "4800",
      MODEL |-> "Vue", SERIAL_PATH |-> "/dev/ttyUSB0", LOG_LEVEL |-> "debug",
      RAIN_COLLECTOR_SIZE |-> "0.2mm", CONSOLE_LOG |-> "true", FILE_LOG |-> "0",
      LOG_ERROR_INFORMATION |-> "false", RAIN_UNIT |-> "mm", TEMPERATURE_UNIT |-> "°C",
      PRESSURE_UNIT |-> "hPa", SOLAR_RADIATION_UNIT |-> "W/m²", WIND_UNIT |-> "km/h"],
     [API |-> "not a url", BAUD_RATE |-> "115200", MODEL |-> "Pro3",
      SERIAL_PATH |-> "COM9", LOG_LEVEL |-> "verbose", RAIN_COLLECTOR_SIZE |-> "1mm",
      CONSOLE_LOG |-> "yes", RAIN_UNIT |-> "cm", WIND_UNIT |-> "mph"]}

----------------------------------------------------------------------------
(* The task settings with the environment *)

\* interval && validator.isInt(interval, { min: 1 })
AcceptedInterval(env) ==
    /\ "CURRENT_CONDITIONS_INTERVAL" \in DOMAIN env
    /\ env.CURRENT_CONDITIONS_INTERVAL # ""
    /\ isInt(env.CURRENT_CONDITIONS_INTERVAL, 1)

\* whether the call looks at the environment
overlaid(settings) == ~settings.disable /\ settings.preferEnvironmentVariables

\* configureCurrentConditionsTask with process.env: the merge, then the
\* overlay of CURRENT_CONDITIONS_INTERVAL
configureFromEnvironment(s, settings, env) ==
    LET merged == configureCurrentConditionsTask(s, settings)
    IN IF overlaid(settings) /\ AcceptedInterval(env)
       THEN [merged EXCEPT !.defaultCurrentConditionsTaskSettings.interval =
                               Num(parseInt(env.CURRENT_CONDITIONS_INTERVAL)[1])]
       ELSE merged

\* the warnings the call logs
taskWarnings(settings, env) ==
    IF overlaid(settings) /\ ~AcceptedInterval(env)
    THEN <<"CURRENT_CONDITIONS_INTERVAL">>
    ELSE << >>

\* whether the call throws InvalidRecorderConfigurationError (after the assignment)
configureFromEnvironmentThrows(s, settings, env) ==
    /\ ~settings.disable
    /\ IntervalRejected(configureFromEnvironment(s, settings, env).defaultCurrentConditionsTaskSettings.interval)

\* the arguments of configureCurrentConditionsTask that are tried with the environment
TaskSettingsWithFlag ==
    {[disable |-> TRUE, interval |-> Undefined, preferEnvironmentVariables |-> FALSE]} \cup
    {[disable |-> FALSE, interval |-> i, preferEnvironmentVariables |-> FALSE] :
        i \in {Undefined, Some(Num(0)), Some(Num(1)), Some(Num(1) + 500), Some(Num(2))}} \cup
    {[disable |-> FALSE, interval |-> i, preferEnvironmentVariables |-> TRUE] :
        i \in {Undefined, Some(Num(1))}}

\* the values of CURRENT_CONDITIONS_INTERVAL
IntervalStrings == {"", "3", "+2", "02", "0", "1.5", "-3", "3s", "abc"}

\* the environments that are tried for the task
TaskEnvironments ==
    {[SERIAL_PATH |-> "COM5"]} \cup
    {[CURRENT_CONDITIONS_INTERVAL |-> str] : str \in {"3", "0", "1.5"}}

----------------------------------------------------------------------------
(* The continuations of updateCurrentConditions and the callbacks *)

\* getRichRealtimeData rejects: the catch block logs and calls sleep(1000)
readFailed(s, c) ==
    [s EXCEPT !.cycles = (@ (-) One(c)) (+)
        One([c EXCEPT !.pc = "sleeping", !.fails = @ + 1, !.at = s.now])]

\* a retry that does not wait
wake_NoBackoff(c) == c.at

\* the instant at which sleep(1000) resolves
wake(c) == c.at + BackoffMs

\* sleep resolves; record is still undefined, so the loop requests a reading again
retry(s, c) ==
    [s EXCEPT !.cycles = (@ (-) One(c)) (+)
        One([c EXCEPT !.pc = "reading", !.reads = @ + 1, !.sleeps = @ + 1, !.at = s.now])]

\* superagent.post(...).send(record).end(callback): the request is sent
dispatch(s) == [s EXCEPT !.deliveries = @ + 1]

\* the assignment to this.realtimeRecorderTimeout: the handle leaves the timer it referred to
Release(ts) ==
    LET S == {[t EXCEPT !.held = FALSE] : t \in BagToSet(ts)}
    IN [u \in S |-> (IF u \in DOMAIN ts THEN ts[u] ELSE 0)
                    + (IF [u EXCEPT !.held = TRUE] \in DOMAIN ts THEN ts[[u EXCEPT !.held = TRUE]] ELSE 0)]

\* the re-arm: lines 382 to 386
rearm(s, c, t) ==
    LET delay == timeoutTime(t, currentConditionsInterval(s))
    IN [s EXCEPT !.timers = Release(@) (+) One(setTimeout(s.now, delay)),
                 !.cycles = @ (-) One(c)]

\* getRichRealtimeData resolves with a record whose time is t: the rest of
\* updateCurrentConditions runs without another await
readSucceeded(s, c, t) == rearm(dispatch(s), c, t)

\* a timer whose callback does nothing
timerFired_Drops(s, t) == [s EXCEPT !.timers = @ (-) One(t)]

\* the event loop runs the callback of a due timer
timerFired(s, t) == updateCurrentConditions([s EXCEPT !.timers = @ (-) One(t)])

\* a callback that stops the recorder when the delivery failed
deliveryEnded_StopsOnFailure(s, ok) ==
    IF ok
    THEN [s EXCEPT !.deliveries = @ - 1]
    ELSE [s EXCEPT !.deliveries = @ - 1, !.timers = clearTimeout(@), !.running = FALSE]

\* a callback that sends the reading again when the delivery failed
deliveryEnded_ResendsOnFailure(s, ok) ==
    IF ok THEN [s EXCEPT !.deliveries = @ - 1] ELSE s

\* the callback passed to end(): it only logs, whatever the outcome
deliveryEnded(s, ok) == [s EXCEPT !.deliveries = @ - 1]

----------------------------------------------------------------------------
(* The start script *)

\* no start script runs: the recorder is driven by its caller
NoMain == [pc |-> "absent", recorder |-> Undefined, exited |-> FALSE]

\* the argument of Recorder.create in main()
MainSettings == [preferEnvironmentVariables |-> TRUE]

\* the argument of configureCurrentConditionsTask in main()
MainTaskSettings == [disable |-> FALSE, interval |-> Some(Num(1)), preferEnvironmentVariables |-> TRUE]

\* the events whose handler calls shutdownGracefully
ShutdownEvents == {"SIGINT", "SIGUSR1", "SIGUSR2", "SIGTERM", "uncaughtException"}

\* the recorder's state s together with the script's state
WithMain(s, m) == [f \in DOMAIN s \cup {"main"} |-> IF f = "main" THEN m ELSE s[f]]

\* a handler that exits at once
shutdownGracefully_NoStop(s) == [s EXCEPT !.main.exited = TRUE]

\* recorder?.stop(); process.exit(): s is the recorder's state with the script's
shutdownGracefully(s) ==
    IF s.main.recorder # Undefined
    THEN [stop(s) EXCEPT !.main.exited = TRUE]
    ELSE [s EXCEPT !.main.exited = TRUE]

----------------------------------------------------------------------------
(* The state machine *)

Init ==
    /\ running = FALSE
    /\ currentConditionsTaskSettings = Undefined
    /\ defaultCurrentConditionsTaskSettings = InitialDefaults
    /\ timers = EmptyBag
    /\ cycles = EmptyBag
    /\ deliveries = 0
    /\ now = 0
    /\ defaultRecorderSettings = resolve(InitialRecorderDefaults, ExampleSettings, << >>)
    /\ recorderSettings = RecorderDefaultsRef
    /\ connecting = 0
    /\ main = NoMain

Chains(s) == BagCardinality(s.cycles) + BagCardinality(s.timers)

Start ==
    /\ Chains(start(Cur)) <= MaxChains
    /\ Becomes(start(Cur))

Stop ==
    /\ Becomes(stop(Cur))

Restart ==
    /\ Chains(restart(Cur)) <= MaxChains
    /\ Becomes(restart(Cur))

Configure == \E settings \in TaskSettingsInputs :
    /\ Becomes(configureCurrentConditionsTask(Cur, settings))

ReadFailed == \E c \in BagToSet(cycles) :
    /\ c.pc = "reading"
    /\ c.fails < MaxFails
    /\ Becomes(readFailed(Cur, c))

Retry == \E c \in BagToSet(cycles) :
    /\ c.pc = "sleeping"
    /\ now >= wake(c)
    /\ Becomes(retry(Cur, c))

\* the driver stamps the record when the read is requested or when it ends
RecordTimes(c) == {c.at, now}

ReadSucceeded == \E c \in BagToSet(cycles) : \E t \in RecordTimes(c) :
    /\ c.pc = "reading"
    /\ deliveries < MaxInflight
    /\ Becomes(readSucceeded(Cur, c, t))

TimerFired == \E t \in BagToSet(timers) :
    /\ now >= t.due
    /\ Becomes(timerFired(Cur, t))

DeliveryEnded == \E ok \in BOOLEAN :
    /\ deliveries > 0
    /\ Becomes(deliveryEnded(Cur, ok))

Tick == \E d \in ClockSteps :
    /\ now + d <= MaxTime
    /\ Becomes([Cur EXCEPT !.now = @ + d])

Next ==
    \/ Start
    \/ Stop
    \/ Restart
    \/ Configure
    \/ ReadFailed
    \/ Retry
    \/ ReadSucceeded
    \/ TimerFired
    \/ DeliveryEnded
    \/ Tick

Spec == Init /\ [][Next]_vars

\* The same machine with one chain fewer, for the properties of progress
StartFair ==
    /\ Chains(start(Cur)) < MaxChains
    /\ Becomes(start(Cur))

RestartFair ==
    /\ Chains(restart(Cur)) < MaxChains
    /\ Becomes(restart(Cur))

NextFair ==
    \/ StartFair
    \/ Stop
    \/ RestartFair
    \/ Configure
    \/ ReadFailed
    \/ Retry
    \/ ReadSucceeded
    \/ TimerFired
    \/ DeliveryEnded
    \/ Tick

\* the event loop runs the callback of a timer that is due, and time passes
SpecFair == Init /\ [][NextFair]_vars /\ WF_vars(TimerFired) /\ WF_vars(Tick)

----------------------------------------------------------------------------
(* The state machine of the settings: create() and the task settings, from the
   loading of the module *)

InitLoaded ==
    /\ running = FALSE
    /\ currentConditionsTaskSettings = Undefined
    /\ defaultCurrentConditionsTaskSettings = InitialDefaults
    /\ timers = EmptyBag
    /\ cycles = EmptyBag
    /\ deliveries = 0
    /\ now = 0
    /\ defaultRecorderSettings = InitialRecorderDefaults
    /\ recorderSettings = Undefined
    /\ connecting = 0
    /\ main = NoMain

Create == \E minimumSettings \in CreateInputs, env \in Environments :
    LET m == create(CurModule, minimumSettings, env)
    IN /\ m.connecting <= MaxConnecting
       /\ BecomesModule(m)
       /\ UNCHANGED <<recorderVars, main>>

Connected == \E ok \in BOOLEAN :
    /\ connecting > 0
    /\ BecomesModule(connected(CurModule, ok))
    /\ UNCHANGED <<recorderVars, main>>

ConfigureTask == \E settings \in TaskSettingsWithFlag, env \in TaskEnvironments :
    /\ recorderSettings # Undefined
    /\ Becomes(configureFromEnvironment(Cur, settings, env))

NextSettings ==
    \/ Create
    \/ Connected
    \/ ConfigureTask

SpecSettings == InitLoaded /\ [][NextSettings]_vars

----------------------------------------------------------------------------
(* The state machine of the start script *)

InitMain ==
    /\ running = FALSE
    /\ currentConditionsTaskSettings = Undefined
    /\ defaultCurrentConditionsTaskSettings = InitialDefaults
    /\ timers = EmptyBag
    /\ cycles = EmptyBag
    /\ deliveries = 0
    /\ now = 0
    /\ defaultRecorderSettings = InitialRecorderDefaults
    /\ recorderSettings = Undefined
    /\ connecting = 0
    /\ main = [pc |-> "create", recorder |-> Undefined, exited |-> FALSE]

\* main() up to its await
MainCreate == \E env \in Environments :
    LET m == create(CurModule, MainSettings, env)
    IN /\ ~main.exited
       /\ main.pc = "create"
       /\ BecomesModule(m)
       /\ main' = [main EXCEPT !.pc = IF m.connecting > connecting THEN "connecting" ELSE "rejected"]
       /\ UNCHANGED recorderVars

\* create() rejects: main() rejects with it
MainConnectFailed ==
    /\ ~main.exited
    /\ main.pc = "connecting"
    /\ BecomesModule(connected(CurModule, FALSE))
    /\ main' = [main EXCEPT !.pc = "rejected"]
    /\ UNCHANGED recorderVars

\* create() resolves: the rest of main() runs without another await
MainConnected == \E env \in TaskEnvironments :
    LET configured == configureFromEnvironment(Cur, MainTaskSettings, env)
        threw == configureFromEnvironmentThrows(Cur, MainTaskSettings, env)
    IN /\ ~main.exited
       /\ main.pc = "connecting"
       /\ BecomesModule(connected(CurModule, TRUE))
       /\ BecomesRecorder(IF threw THEN configured ELSE start(configured))
       /\ main' = [main EXCEPT !.pc = IF threw THEN "rejected" ELSE "returned",
                               !.recorder = Some("recorder")]

Shutdown == \E event \in ShutdownEvents :
    LET s == shutdownGracefully(WithMain(Cur, main))
    IN /\ ~main.exited
       /\ BecomesRecorder(s)
       /\ main' = s.main
       /\ UNCHANGED createVars

\* the steps of the recorder while the process lives
MainReadFailed ==
    /\ ~main.exited
    /\ ReadFailed

MainRetry ==
    /\ ~main.exited
    /\ Retry

MainReadSucceeded ==
    /\ ~main.exited
    /\ ReadSucceeded

MainTimerFired ==
    /\ ~main.exited
    /\ TimerFired

MainDeliveryEnded ==
    /\ ~main.exited
    /\ DeliveryEnded

MainTick ==
    /\ ~main.exited
    /\ Tick

NextMain ==
    \/ MainCreate
    \/ MainConnectFailed
    \/ MainConnected
    \/ MainReadFailed
    \/ MainRetry
    \/ MainReadSucceeded
    \/ MainTimerFired
    \/ MainDeliveryEnded
    \/ MainTick
    \/ Shutdown

SpecMain == InitMain /\ [][NextMain]_vars

----------------------------------------------------------------------------
(* The state machine of the re-arm near the transitions of the time zone: a
   Running recorder whose cycle reads the station at a chosen instant *)

\* an instant of standard time far from any transition, the two transitions,
\* and the end of the hour that local time repeats
InstantsOfInterest == {HourMs, SpringForward, FallBack, FallBack + HourMs}

InWindow(t) == \E p \in InstantsOfInterest : p - DelayWindow <= t /\ t <= p + DelayWindow

\* the instants at which the first reading is requested
ReadInstants == {p + d : p \in InstantsOfInterest, d \in {-1500, -750, -1, 0, 250}}

\* the task intervals that are tried: integers of at least 1
DelayIntervals == {Num(1), Num(2), Num(3)}

InitDelay ==
    /\ running = TRUE
    /\ currentConditionsTaskSettings = DefaultsRef
    /\ defaultCurrentConditionsTaskSettings \in {[interval |-> i] : i \in DelayIntervals}
    /\ timers = EmptyBag
    /\ now \in ReadInstants
    /\ cycles = One(NewCycle(now))
    /\ deliveries = 0
    /\ defaultRecorderSettings = resolve(InitialRecorderDefaults, ExampleSettings, << >>)
    /\ recorderSettings = RecorderDefaultsRef
    /\ connecting = 0
    /\ main = NoMain

\* the reading arrives at once, stamped with the instant of its request
DelayReadSucceeded == \E c \in BagToSet(cycles) :
    /\ c.pc = "reading"
    /\ deliveries < MaxInflight
    /\ Becomes(readSucceeded(Cur, c, c.at))

DelayDeliveryEnded == \E ok \in BOOLEAN :
    /\ deliveries > 0
    /\ Becomes(deliveryEnded(Cur, ok))

\* time passes until the timer is due, and the event loop runs its callback
DelayTimerFired == \E t \in BagToSet(timers) :
    /\ InWindow(t.due)
    /\ Becomes(timerFired([Cur EXCEPT !.now = t.due], t))

NextDelay ==
    \/ DelayReadSucceeded
    \/ DelayDeliveryEnded
    \/ DelayTimerFired

SpecDelay == InitDelay /\ [][NextDelay]_vars

----------------------------------------------------------------------------
(* What the claims speak of *)

currentConditionsConfigured == currentConditionsTaskSettings # Undefined

Reading == {c \in BagToSet(cycles) : c.pc = "reading"}

Sleeping == {c \in BagToSet(cycles) : c.pc = "sleeping"}

\* the timer that updateCurrentConditions has just armed in the state s
Armed(s) == CHOOSE t \in BagToSet(s.timers) : t.held

\* a step in which a sample-and-deliver cycle begins
CycleBegins == BagCardinality(cycles') > BagCardinality(cycles)

\* a step in which a cycle ends
CycleEnds == BagCardinality(cycles') < BagCardinality(cycles)

\* a step in which a read fails and its cycle begins to sleep
SleepBegins == \E c \in BagToSet(cycles') :
    c.pc = "sleeping" /\ CopiesIn(c, cycles') > CopiesIn(c, cycles)

\* a step in which a timer is armed
TimerArmed == BagCardinality(timers') > BagCardinality(timers)

----------------------------------------------------------------------------
(* The claims *)

\* C1: while the recorder is stopped (stop() has returned and start() was not
\* called since), no timer callback runs a cycle and no device read is requested.
C1_NoCycleAfterStop == [][(TimerFired \/ Retry) => running]_vars

\* C2: at most one timer is armed in every reachable state, and a step that
\* begins a cycle leaves no timer armed.
C2_AtMostOneTimer ==
    [][/\ BagCardinality(timers') <= 1
       /\ CycleBegins => timers' = EmptyBag]_vars

\* C3: at most one sample-and-deliver cycle is executing in every reachable state.
C3_AtMostOneCycle == BagCardinality(cycles) <= 1

\* C4: whenever a read completes with a record of time t under a task interval
\* of I seconds (an interval that configureCurrentConditionsTask accepts), the
\* timer then armed is due at t truncated to the second plus I seconds,
\* whatever the instant of the re-arm.
C4_DriftIndependent ==
    \A c \in Reading : \A t \in RecordTimes(c) :
        (currentConditionsConfigured
            /\ ~IntervalRejected(defaultCurrentConditionsTaskSettings.interval)) =>
            Armed(readSucceeded(Cur, c, t)).due
                = t - (t % MsPerSecond) + currentConditionsInterval(Cur)[1]

C6_StopIdempotent ==
    LET s == stop(Cur)
    IN /\ stop(s) = s
       /\ ~s.running
       /\ s.timers = EmptyBag

\* C7: configureCurrentConditionsTask on a Running recorder does not change
\* the timer that a cycle in flight arms when its reading arrives.
C7_ConfigureFrame ==
    running =>
        \A settings \in TaskSettingsInputs : \A c \in Reading : \A t \in RecordTimes(c) :
            Armed(readSucceeded(configureCurrentConditionsTask(Cur, settings), c, t))
                = Armed(readSucceeded(Cur, c, t))

\* C8: after restart() the recorder is Running, no timer armed before the call
\* is still armed, and exactly one new cycle has begun if a task is configured.
C8_RestartCancels ==
    LET s == restart(Cur)
    IN /\ s.running
       /\ s.timers = EmptyBag
       /\ s.cycles = IF currentConditionsConfigured THEN cycles (+) One(NewCycle(now)) ELSE cycles

\* C9: a cycle whose read failed k times has requested k + 1 readings and slept
\* k times; a sleeping cycle leaves its sleep only by the retry, at least one
\* second after the failure; a failure changes nothing but the cycle; and a
\* cycle ends only by dispatching its reading and arming a timer.
C9_RetryPerFailure ==
    [][/\ \A c \in Sleeping :
            /\ c.reads = c.fails
            /\ c.sleeps = c.fails - 1
            /\ CopiesIn(c, cycles') < CopiesIn(c, cycles) =>
                /\ now >= c.at + BackoffMs
                /\ cycles' = retry(Cur, c).cycles
       /\ \A c \in Reading :
            /\ c.reads = c.fails + 1
            /\ c.sleeps = c.fails
       /\ SleepBegins =>
            UNCHANGED <<running, currentConditionsTaskSettings,
                        defaultCurrentConditionsTaskSettings, timers, deliveries, now>>
       /\ CycleEnds => deliveries' = deliveries + 1 /\ TimerArmed]_vars

\* a cycle on its third request, after two failed reads
C9_Witness == \E c \in Reading : c.fails = 2 /\ c.reads = 3

\* C10: the step that arms the timer leaves the delivery it dispatched in
\* flight, and the end of a delivery, with either outcome, changes neither the
\* running flag, the timers, the cycles, the task settings nor the clock.
C10_DeliveryIndependent ==
    [][/\ TimerArmed => deliveries' = deliveries + 1
       /\ deliveries' < deliveries =>
            UNCHANGED <<running, currentConditionsTaskSettings,
                        defaultCurrentConditionsTaskSettings, timers, cycles, now>>]_vars

\* a timer stays armed after the delivery of its reading has ended
C10_Witness ==
    /\ running
    /\ BagCardinality(timers) = 1
    /\ deliveries = 0

\* C11: the reading a cycle obtains is dispatched once, in the step that ends
\* the cycle and arms its timer; the end of a delivery, successful or failed,
\* takes the reading out of flight and dispatches nothing; no other operation
\* dispatches.
C11_DispatchedOnce ==
    /\ \A c \in Reading : \A t \in RecordTimes(c) :
          LET s == readSucceeded(Cur, c, t)
          IN /\ s.deliveries = deliveries + 1
             /\ dispatch(Cur).deliveries = s.deliveries
             /\ BagCardinality(s.timers) = BagCardinality(dispatch(Cur).timers) + 1
    /\ deliveries > 0 => \A ok \in BOOLEAN : deliveryEnded(Cur, ok).deliveries = deliveries - 1
    /\ start(Cur).deliveries = deliveries
    /\ stop(Cur).deliveries = deliveries
    /\ restart(Cur).deliveries = deliveries
    /\ \A settings \in TaskSettingsInputs :
          configureCurrentConditionsTask(Cur, settings).deliveries = deliveries
    /\ \A c \in Reading : readFailed(Cur, c).deliveries = deliveries
    /\ \A c \in Sleeping : retry(Cur, c).deliveries = deliveries
    /\ \A t \in BagToSet(timers) : timerFired(Cur, t).deliveries = deliveries

\* a reading is in flight, its cycle has ended and the timer of that cycle is armed
C11_Witness ==
    /\ deliveries = 1
    /\ cycles = EmptyBag
    /\ timers # EmptyBag

\* the last instant the clock of the model reaches
LastInstant ==
    CHOOSE n \in 0..MaxTime :
        /\ \E d \in ClockSteps : n % d = 0
        /\ \A m \in (n + 1)..MaxTime : \A d \in ClockSteps : m % d # 0

\* a cycle has completed: none is active, a timer is armed, and every timer is
\* due within the model's time
CycleCompleted ==
    /\ cycles = EmptyBag
    /\ timers # EmptyBag
    /\ \A t \in BagToSet(timers) : t.due <= LastInstant

\* stop() has ended the sampling: the recorder is stopped, or it was restarted
\* with the task disabled and start() began nothing
EndedByStop ==
    \/ ~running
    \/ currentConditionsTaskSettings = Undefined /\ timers = EmptyBag

\* C18: while the recorder is running, a completed cycle is always followed by
\* the beginning of another, unless stop() ends the sampling first.
C18_SamplingContinues == (running /\ CycleCompleted) ~> (cycles # EmptyBag \/ EndedByStop)

\* a cycle has completed, a second or more after the recorder was created
C18_Witness ==
    /\ running
    /\ CycleCompleted
    /\ now >= MsPerSecond

----------------------------------------------------------------------------
(* The claims about the settings *)

\* the variable of a property
VariableOf(f) ==
    EnvironmentVariables[CHOOSE n \in 1..Len(EnvironmentVariables) : FieldOf(EnvironmentVariables[n]) = f]

\* the properties validateSettings requires that have an empty default, in its order
RequiredWithoutDefault == <<"path", "rainCollectorSize", "api">>

\* the error that names a property
ErrorNaming(f) ==
    CASE f = "path" -> "No serial path specified!"
      [] f = "rainCollectorSize" -> "No rain collector size specified!"
      [] f = "api" -> "No api url specified!"
      [] f = "baudRate" -> "No baud rate specified!"
      [] f = "model" -> "No weather station model specified!"

\* whether a call of create() asks for the overlay
AsksForOverlay(minimumSettings) ==
    "preferEnvironmentVariables" \in DOMAIN minimumSettings /\ minimumSettings.preferEnvironmentVariables

\* whether a call of create() supplies a property, by its argument or by the
\* overlay it asks for
Supplies(minimumSettings, env, f) ==
    IF AsksForOverlay(minimumSettings) /\ Accepted(env, VariableOf(f))
    THEN TRUE
    ELSE ~Missing(minimumSettings, f)

\* C12, for the properties whose default is empty: in every state, whatever
\* create() calls were made before, a create() call that supplies no path, no
\* rain collector size or no api url throws the error that names the first of
\* them it does not supply, and opens no connection.
C12_CreateRejectsIncomplete ==
    \A minimumSettings \in CreateInputs, env \in Environments :
        \A n \in 1..Len(RequiredWithoutDefault) :
            LET f == RequiredWithoutDefault[n]
                after == create(CurModule, minimumSettings, env)
            IN (/\ ~Supplies(minimumSettings, env, f)
                /\ \A k \in 1..(n - 1) : Supplies(minimumSettings, env, RequiredWithoutDefault[k]))
               => /\ validateSettings(after.defaultRecorderSettings) = ErrorNaming(f)
                  /\ after.connecting = connecting

\* C13: in every state the two default objects are as the module loaded them,
\* and a property that a create() call or a configureCurrentConditionsTask
\* call neither gives nor takes from the environment gets its value as loaded
\* (the path "", the interval 1).
C13_FixedDefaults ==
    /\ defaultRecorderSettings = InitialRecorderDefaults
    /\ defaultCurrentConditionsTaskSettings = InitialDefaults
    /\ \A minimumSettings \in CreateInputs, env \in Environments :
         \A f \in DOMAIN InitialRecorderDefaults \ DOMAIN minimumSettings :
            ~(AsksForOverlay(minimumSettings) /\ Accepted(env, VariableOf(f)))
            => create(CurModule, minimumSettings, env).defaultRecorderSettings[f] = InitialRecorderDefaults[f]
    /\ \A settings \in TaskSettingsWithFlag, env \in TaskEnvironments :
         (~settings.disable /\ settings.interval = Undefined
            /\ ~(settings.preferEnvironmentVariables /\ AcceptedInterval(env)))
         => configureFromEnvironment(Cur, settings, env).defaultCurrentConditionsTaskSettings.interval
                = InitialDefaults.interval

\* the number is a whole number of the source
IsInteger(x) == x % MsPerSecond = 0

\* C14: on every recorder, configureCurrentConditionsTask with an interval that
\* is below 1 or is not an integer throws, and with the interval 1 it does not
\* throw and the interval stored is 1.
C14_RejectsBadInterval ==
    recorderSettings # Undefined =>
        \A settings \in TaskSettingsWithFlag, env \in TaskEnvironments :
            (~settings.disable /\ settings.interval # Undefined /\ ~settings.preferEnvironmentVariables) =>
                LET interval == settings.interval[1]
                    after == configureFromEnvironment(Cur, settings, env)
                IN /\ (interval < Num(1) \/ ~IsInteger(interval))
                        => configureFromEnvironmentThrows(Cur, settings, env)
                   /\ interval = Num(1)
                        => /\ ~configureFromEnvironmentThrows(Cur, settings, env)
                           /\ currentConditionsInterval(after) = Some(Num(1))

\* the object this.settings refers to
settingsOfRecorder == defaultRecorderSettings

\* C15: no step changes the settings of a recorder that create() has returned.
C15_SettingsNeverChange ==
    [][recorderSettings # Undefined => settingsOfRecorder' = settingsOfRecorder]_vars

\* C16: a step opens a connection only with settings that validateSettings
\* accepts, one connection for the call; a recorder is returned only by the
\* completion of a connection that was opened; so a create() whose settings
\* fail the validation opens none and returns none.
C16_ValidationBeforeConnection ==
    [][/\ connecting' > connecting =>
            /\ validateSettings(defaultRecorderSettings') = NoError
            /\ connecting' = connecting + 1
            /\ UNCHANGED recorderSettings
       /\ validateSettings(defaultRecorderSettings') # NoError =>
            \/ connecting' = connecting /\ UNCHANGED recorderSettings
            \/ UNCHANGED defaultRecorderSettings
       /\ recorderSettings' # recorderSettings =>
            /\ connecting' = connecting - 1
            /\ UNCHANGED defaultRecorderSettings]_vars

\* a create() call has failed the validation: the default object is written,
\* no connection is open and there is no recorder
C16_Witness ==
    /\ defaultRecorderSettings # InitialRecorderDefaults
    /\ validateSettings(defaultRecorderSettings) # NoError
    /\ connecting = 0
    /\ recorderSettings = Undefined

\* how often a name occurs in a sequence of warnings
Occurrences(warnings, v) == Cardinality({n \in 1..Len(warnings) : warnings[n] = v})

\* the strings of IntervalStrings that are integers of at least 1, with their numbers
IntegersAtLeastOne == ("3" :> 3) @@ ("+2" :> 2) @@ ("02" :> 2)

\* C17: when create() applies the overlay, every variable is dealt with on its
\* own: a variable that is set and valid puts its value into its property and
\* is not warned about; any other leaves its property as merged (absent if it
\* was absent) and is warned about once; the properties no variable belongs to
\* stay as merged. With the overlay asked for, configureCurrentConditionsTask
\* takes CURRENT_CONDITIONS_INTERVAL exactly when it is an integer of at least
\* 1, and otherwise keeps the merged interval and warns once.
C17_OverlayPerVariable ==
    /\ \A minimumSettings \in CreateInputs, env \in Environments :
         LET merged == mergeRecorderSettings(defaultRecorderSettings, minimumSettings)
             after == resolve(defaultRecorderSettings, minimumSettings, env)
             warnings == invalidEnvironmentVariables(env)
         IN merged.preferEnvironmentVariables =>
              /\ \A n \in 1..Len(EnvironmentVariables) :
                   LET v == EnvironmentVariables[n]
                       f == FieldOf(v)
                   IN IF v \in DOMAIN env /\ env[v] # "" /\ Valid(v, env[v])
                      THEN /\ f \in DOMAIN after
                           /\ after[f] = Converted(v, env[v])
                           /\ Occurrences(warnings, v) = 0
                      ELSE /\ f \in DOMAIN after <=> f \in DOMAIN merged
                           /\ f \in DOMAIN merged => after[f] = merged[f]
                           /\ Occurrences(warnings, v) = 1
              /\ after.preferEnvironmentVariables = merged.preferEnvironmentVariables
              /\ validateSettings(after) \in
                    {NoError} \cup {ErrorNaming(f) : f \in {"path", "rainCollectorSize", "api", "baudRate", "model"}}
    /\ \A settings \in TaskSettingsWithFlag, str \in IntervalStrings :
         LET env == [CURRENT_CONDITIONS_INTERVAL |-> str]
             merged == configureCurrentConditionsTask(Cur, settings)
             after == configureFromEnvironment(Cur, settings, env)
         IN (~settings.disable /\ settings.preferEnvironmentVariables) =>
              IF str \in DOMAIN IntegersAtLeastOne
              THEN /\ currentConditionsInterval(after) = Some(Num(IntegersAtLeastOne[str]))
                   /\ taskWarnings(settings, env) = << >>
              ELSE /\ after = merged
                   /\ taskWarnings(settings, env) = <<"CURRENT_CONDITIONS_INTERVAL">>

\* an overlay has taken SERIAL_PATH and refused BAUD_RATE and MODEL
C17_Witness ==
    /\ defaultRecorderSettings.preferEnvironmentVariables
    /\ defaultRecorderSettings.path = "COM9"
    /\ defaultRecorderSettings.baudRate = InitialRecorderDefaults.baudRate
    /\ defaultRecorderSettings.model = InitialRecorderDefaults.model

\* C20: in every state, the interval of a task the recorder has stored is an
\* integer of at least 1.
C20_StoredIntervalValid ==
    currentConditionsTaskSettings # Undefined =>
        /\ currentConditionsInterval(Cur)[1] >= Num(1)
        /\ IsInteger(currentConditionsInterval(Cur)[1])

----------------------------------------------------------------------------
(* The claims about the start of sampling *)

\* configureCurrentConditionsTask(false)
Disable == [disable |-> TRUE, interval |-> Undefined]

\* nothing of a sampling chain exists: no activation, no timer, no request in flight
NothingOutstanding ==
    /\ cycles = EmptyBag
    /\ timers = EmptyBag
    /\ deliveries = 0

\* C22: start() begins a cycle only if a task is configured when it is called.
\* configureCurrentConditionsTask(false) clears the task and never throws; a
\* start() after it sets the recorder Running, requests no reading and arms no
\* timer; configuring a task afterwards begins no cycle and arms no timer, a
\* further start() changes nothing, and restart() begins exactly one cycle if
\* the task was stored. On a Running recorder with nothing outstanding, the
\* only step that begins a cycle is restart().
C22_StartNeedsTask ==
    /\ [](LET d == configureCurrentConditionsTask(Cur, Disable)
              s1 == start(d)
          IN /\ start(Cur).cycles # cycles => ~running /\ currentConditionsConfigured
             /\ ~configureThrows(Cur, Disable)
             /\ d = [Cur EXCEPT !.currentConditionsTaskSettings = Undefined]
             /\ ~running => s1 = [d EXCEPT !.running = TRUE]
             /\ ~running =>
                   \A settings \in TaskSettingsInputs :
                       LET s2 == configureCurrentConditionsTask(s1, settings)
                       IN /\ s2.running
                          /\ s2.cycles = cycles
                          /\ s2.timers = timers
                          /\ start(s2) = s2
                          /\ restart(s2).cycles =
                               IF settings.disable THEN cycles ELSE cycles (+) One(NewCycle(now)))
    /\ [][(running /\ NothingOutstanding /\ CycleBegins) =>
            /\ currentConditionsConfigured
            /\ BecomesRecorder(restart(Cur))]_vars

\* a Running recorder whose task was configured after start(): nothing is sampled
C22_Witness ==
    /\ running
    /\ currentConditionsConfigured
    /\ currentConditionsInterval(Cur) = Some(Num(2))
    /\ NothingOutstanding
    /\ now > 0

\* C23: a new recorder is Stopped with nothing outstanding, and a Stopped
\* recorder with nothing outstanding stays so, whatever is called and whatever
\* time passes, until a step sets it Running (start() or restart()): before
\* the first start() no reading is requested, nothing is dispatched and no
\* timer is armed.
C23_QuietUntilStart ==
    /\ ~running /\ NothingOutstanding
    /\ [][(~running /\ NothingOutstanding /\ ~running') =>
            /\ NothingOutstanding'
            /\ \A settings \in TaskSettingsInputs :
                    LET s == stop(configureCurrentConditionsTask(stop(Cur), settings))
                    IN /\ ~s.running
                       /\ s.cycles = EmptyBag
                       /\ s.timers = EmptyBag
                       /\ s.deliveries = 0]_vars

\* a Stopped recorder with a task of two seconds configured, after time has passed
C23_Witness ==
    /\ ~running
    /\ NothingOutstanding
    /\ currentConditionsInterval(Cur) = Some(Num(2))
    /\ now = MaxTime

----------------------------------------------------------------------------
(* The claim about the delay of the timer *)

\* C21: for a reading of time T under an integer interval of I >= 1 seconds,
\* the delay passed to setTimeout is (T truncated to the second + I seconds) - T,
\* that is 1000 * I minus the milliseconds of T; it lies between
\* 1000 * (I - 1) + 1 and 1000 * I and is positive; and the timer armed with a
\* delay is due after that delay, or at once (after the least delay of a
\* timer, one millisecond) if the delay is not positive.
C21_DelayWithinInterval ==
    \A c \in Reading :
        LET T == c.at
            I == defaultCurrentConditionsTaskSettings.interval
            delay == timeoutTime(T, currentConditionsInterval(Cur))
        IN (currentConditionsConfigured /\ IsInteger(I) /\ I >= Num(1)) =>
            /\ delay = Some((T - (T % MsPerSecond) + I) - T)
            /\ delay[1] = I - (T % MsPerSecond)
            /\ (I - MsPerSecond) + 1 <= delay[1]
            /\ delay[1] <= I
            /\ delay[1] > 0
            /\ Armed(readSucceeded(Cur, c, T)).due =
                    now + (IF delay[1] > 0 THEN delay[1] ELSE 1)

----------------------------------------------------------------------------
(* The claims about the start script *)

\* C19: whenever the process of the start script has exited, by any of the
\* four signals or by an uncaught exception, the recorder it had created is
\* stopped and no timer of it is armed.
C19_StoppedAtExit ==
    (main.exited /\ main.recorder # Undefined) =>
        /\ ~running
        /\ timers = EmptyBag

\* main() had started the recorder, and the process has exited
C19_Witness ==
    /\ main.exited
    /\ main.pc = "returned"
    /\ now > 0

====
